---- MODULE Spec2Model ----
(***************************************************************************)
(* A model of the syntropylog-doc repository: the documentation site       *)
(* (configuration, presentational components, content tree and the link    *)
(* check of the build), the boilerplate of boilerplate.ts / main.ts that   *)
(* the pages document, the tests and the NotificationService of example    *)
(* 32, and the behaviour of the syntropylog library that the pages state.  *)
(*                                                                         *)
(* The specifications share the variables; each leaves the variables of    *)
(* the other parts at their initial values:                                *)
(*   SiteSpec             the build of the site and its link check         *)
(*   BoilerplateSpec      a Node.js process running the boilerplate        *)
(*   BoilerplateFairSpec  the same, under the event loop's scheduling      *)
(*   NotificationSpec     a test run calling NotificationService           *)
(*   AccessorSpec         calls of the library's resource accessors        *)
(*   LoggingSpec          context, loggingMatrix, masking and log calls    *)
(*   RenderSpec           renders of the presentational components        *)
(***************************************************************************)
EXTENDS Integers, Sequences, FiniteSets, TLC

VARIABLES
    \* ---- the site build
    config,         \* which configuration file the generator loaded: "ts" | "js"
    examplesPage,   \* which Examples page is rendered: "examples.tsx" | "part_000"
    buildPhase,     \* "idle" | "checking" | "built" | "failed"
    checked,        \* how many of the site's links the link check has met
    brokenLinks,    \* broken links reported under the policy 'throw'
    warnings,       \* broken links reported under the policy 'warn'
    siteConfig,     \* the configuration as evaluated: customFields, html navbar items
    \* ---- the boilerplate process
    app,            \* which program runs: "none" | "main" | "test29" | "test32"
    mainPc,         \* position of main() / of the test body
    initCall,       \* the promise of syntropyLog.init(): [status, error]
    initFn,         \* the promise of initializeSyntropyLog(): [status, value, error]
    requestCall,    \* the promise of apiClient.request(): [status, error]
    handlers,       \* signal handler invocations: seq of [signal, pc]
    shutdownCalls,  \* promises of syntropyLog.shutdown(), one per call: seq of [status, error]
    shutdownFns,    \* promises of gracefulShutdown() / shutdownSyntropyLog(): seq of [status, value, error]
    microtasks,     \* the microtask queue: continuations ready to run
    console,        \* what was written to the console: seq of [stream, msg, error]
    exited,         \* whether process.exit() was called
    exitCode,       \* the code it was called with
    \* ---- the notification service
    calls,          \* NotificationService calls: seq of [op, user, pc, due]
    entries,        \* the entries the transport captured
    now,            \* the timers' clock (ms)
    testPc,         \* position of the test run: "setup" | "start" | "awaiting" | "done"
    testsRun,       \* how many tests the runner has set up
    mockInstance,   \* which mock instance testHelper.mockSyntropyLog is
    spyCalls,       \* the calls the mock logger's spies recorded: seq of [method, message]
    \* ---- the library, as the pages document it
    libPc,          \* "created" | "ready": whether syntropyLog.init() has resolved
    instances,      \* the instances the accessors made: set of [accessor, name, id]
    returned,       \* what the accessor calls returned: seq of [accessor, name, id]
    context,        \* the context manager's fields: a function field -> value
    loggingMatrix,  \* level (or "default") -> sequence of field names
    masking,        \* [fields, replacement]
    emitted,        \* the log entries handed to the transports
    \* ---- the presentational components
    featureLists,   \* the FeatureList array of each HomepageFeatures module
    exampleCategories, \* the ExampleCategories array of the Examples module
    renderTarget,   \* the component being rendered, "none" between renders
    markup,         \* the children rendered so far by the render in progress
    renders         \* the finished renders: seq of [component, children]

siteVars == <<config, examplesPage, buildPhase, checked, brokenLinks, warnings, siteConfig>>
procVars == <<app, mainPc, initCall, initFn, requestCall, handlers, shutdownCalls,
              shutdownFns, microtasks, console, exited, exitCode>>
notifVars == <<calls, entries, now, testPc, testsRun, mockInstance, spyCalls>>
libVars == <<libPc, instances, returned, context, loggingMatrix, masking, emitted>>
renderVars == <<featureLists, exampleCategories, renderTarget, markup, renders>>
vars == <<siteVars, procVars, notifVars, libVars, renderVars>>

(***************************************************************************)
(* Strings.  TLC's strings support \o, Len and SubSeq, so the JavaScript   *)
(* string methods the pages use are computed character by character.       *)
(***************************************************************************)
UpperCaseLetters == "ABCDEFGHIJKLMNOPQRSTUVWXYZ"
LowerCaseLetters == "abcdefghijklmnopqrstuvwxyz"

CharAt(s, i) == SubSeq(s, i, i)

\* The lower-case form of one character.
LowerChar(c) ==
    IF \E i \in 1..Len(UpperCaseLetters) : CharAt(UpperCaseLetters, i) = c
    THEN LET i == CHOOSE j \in 1..Len(UpperCaseLetters) : CharAt(UpperCaseLetters, j) = c
         IN  CharAt(LowerCaseLetters, i)
    ELSE c

\* String.prototype.toLowerCase
RECURSIVE ToLowerCase(_)
ToLowerCase(s) ==
    IF Len(s) = 0 THEN ""
    ELSE LowerChar(CharAt(s, 1)) \o ToLowerCase(SubSeq(s, 2, Len(s)))

\* String.prototype.replace with a one-character string pattern: only the
\* first occurrence is replaced.
RECURSIVE ReplaceFirst(_, _, _)
ReplaceFirst(s, pat, rep) ==
    IF Len(s) = 0 THEN ""
    ELSE IF CharAt(s, 1) = pat THEN rep \o SubSeq(s, 2, Len(s))
    ELSE CharAt(s, 1) \o ReplaceFirst(SubSeq(s, 2, Len(s)), pat, rep)

StartsWith(s, p) == Len(s) >= Len(p) /\ SubSeq(s, 1, Len(p)) = p

EndsWith(s, p) == Len(s) >= Len(p) /\ SubSeq(s, Len(s) - Len(p) + 1, Len(s)) = p

Drop(s, n) == SubSeq(s, n + 1, Len(s))

\* The position of the last "/" of s, 0 when it has none.
LastSlash(s) ==
    LET at == {i \in 1..Len(s) : CharAt(s, i) = "/"}
    IN  IF at = {} THEN 0 ELSE CHOOSE i \in at : \A j \in at : j <= i

Digits == "0123456789"

\* Whether s is written with decimal digits only.
IsDigits(s) ==
    /\ Len(s) > 0
    /\ \A i \in 1..Len(s) : \E d \in 1..Len(Digits) : CharAt(Digits, d) = CharAt(s, i)

\* The value of one decimal digit.
DigitValue(c) == (CHOOSE d \in 1..Len(Digits) : CharAt(Digits, d) = c) - 1

\* The number a string of decimal digits writes ("07" is 7).
RECURSIVE ParseNumber(_)
ParseNumber(s) ==
    IF Len(s) = 0 THEN 0
    ELSE 10 * ParseNumber(SubSeq(s, 1, Len(s) - 1)) + DigitValue(CharAt(s, Len(s)))

\* The position of the first occurrence of the character c in s, 0 when it
\* has none.
IndexOf(s, c) ==
    LET at == {i \in 1..Len(s) : CharAt(s, i) = c}
    IN  IF at = {} THEN 0 ELSE CHOOSE i \in at : \A j \in at : i <= j

\* Whether s holds the string p somewhere.
Contains(s, p) ==
    \E i \in 1..(Len(s) - Len(p) + 1) : SubSeq(s, i, i + Len(p) - 1) = p

(***************************************************************************)
(* The site: configuration, content tree, presentational pages.           *)
(***************************************************************************)

\* A configuration that only warns about broken links.
onBrokenLinksWarn == "warn"

\* docusaurus.config.ts and docusaurus.config.js both set these.
onBrokenLinks == "throw"

onBrokenMarkdownLinks == "warn"

Configs == {"ts", "js"}

\* const LATEST_VERSION = '0.7.0' of docusaurus.config.ts.
LATEST_VERSION == "0.7.0"

\* The values the constant takes from release to release: the configuration
\* is evaluated with the one its file holds.
LatestVersions == {LATEST_VERSION, "0.7.1", "0.8.0"}

\* customFields as <<field, value>> pairs; docusaurus.config.js has none.
CustomFields(cfg, latest) ==
    IF cfg = "ts" THEN {<<"version", latest>>, <<"releaseDate", "2025-07-25">>} ELSE {}

\* A badge with the version written out in the template.
VersionBadgeWrittenOut(latest) == "<span class=\"version-badge\">v0.7.0</span>"

\* `<span class="version-badge">v${LATEST_VERSION}</span>`
VersionBadge(latest) == ("<span class=\"version-badge\">v" \o latest) \o "</span>"

\* The values of the navbar items of type 'html', in order;
\* docusaurus.config.js has none.
NavbarHtml(cfg, latest) == IF cfg = "ts" THEN << VersionBadge(latest) >> ELSE << >>

\* The `to` targets of themeConfig.navbar.items, in order.
NavbarTo(cfg) ==
    IF cfg = "ts" THEN << "/examples" >>
    ELSE << "/examples", "/api", "/quality" >>

\* The `to` targets of themeConfig.footer.links[*].items, in order.
FooterTo(cfg) ==
    IF cfg = "ts" THEN << "/docs/getting-started", "/docs/api-reference/", "/examples" >>
    ELSE << "/docs/getting-started", "/examples", "/api", "/quality" >>

ExampleCategories == <<
    [title |-> "Foundation Examples (00-09)",
     description |-> "Start here if you're new to SyntropyLog",
     examples |-> <<
       [number |-> "00", title |-> "Setup & Initialization", description |-> "Basic initialization patterns"],
       [number |-> "01", title |-> "Hello World", description |-> "Your first SyntropyLog application"],
       [number |-> "02", title |-> "Basic Context", description |-> "Understanding context management"],
       [number |-> "03", title |-> "TypeScript Context", description |-> "Type-safe context with TypeScript"],
       [number |-> "04", title |-> "Logging Levels & Transports", description |-> "Different log formats and levels"],
       [number |-> "05", title |-> "Configuration Patterns", description |-> "Advanced configuration strategies"],
       [number |-> "06", title |-> "Error Handling", description |-> "Best practices for error logging"],
       [number |-> "07", title |-> "Performance Monitoring", description |-> "Monitoring application performance"],
       [number |-> "08", title |-> "Testing Strategies", description |-> "How to test with SyntropyLog"],
       [number |-> "09", title |-> "Best Practices", description |-> "Production-ready patterns"] >>],
    [title |-> "HTTP & Redis Examples (10-13)",
     description |-> "Learn HTTP instrumentation and Redis integration",
     examples |-> <<
       [number |-> "10", title |-> "Basic HTTP Correlation", description |-> "HTTP client instrumentation"],
       [number |-> "11", title |-> "Custom HTTP Adapters", description |-> "Creating custom HTTP adapters"],
       [number |-> "12", title |-> "HTTP + Redis + Axios", description |-> "Full-stack with Express"],
       [number |-> "13", title |-> "HTTP + Redis + Fastify", description |-> "Full-stack with Fastify"] >>],
    [title |-> "Message Broker Examples (20-24)",
     description |-> "Advanced patterns with message brokers",
     examples |-> <<
       [number |-> "20", title |-> "Basic Kafka Correlation", description |-> "Kafka integration"],
       [number |-> "21", title |-> "Basic RabbitMQ Broker", description |-> "RabbitMQ integration"],
       [number |-> "22", title |-> "Basic NATS Broker", description |-> "NATS integration"],
       [number |-> "23", title |-> "Kafka Full Stack", description |-> "Complete Kafka application"],
       [number |-> "24", title |-> "NATS Full Stack", description |-> "Complete NATS microservices"] >>] >>

\* A Link built from the first character of the number only.
ExampleCardToFirstCharacter(example) ==
    "/docs/examples/" \o CharAt(ToLowerCase(example.number), 1)

\* The `to` of the Link that ExampleCard renders for one example.
ExampleCardTo(example) ==
    "/docs/examples/" \o ReplaceFirst(ToLowerCase(example.number), " ", "-")

\* ExampleCategory: one ExampleCard per example of the category, in order.
ExampleCategoryCards(category) ==
    [i \in 1..Len(category.examples) |-> ExampleCardTo(category.examples[i])]

\* Examples (part_000): one ExampleCategory per category, in order; the
\* cards' targets in the order they are rendered.
RECURSIVE ExamplesCards(_)
ExamplesCards(categories) ==
    IF categories = << >> THEN << >>
    ELSE ExampleCategoryCards(Head(categories)) \o ExamplesCards(Tail(categories))

ExamplesPages == {"examples.tsx", "part_000"}

\* The internal (`to`) links an Examples page renders.  src/pages/examples.tsx
\* renders only external hrefs.
ExamplesPageTo(page) ==
    IF page = "part_000" THEN ExamplesCards(ExampleCategories) ELSE << >>

\* The documentation pages: directory under docs/, file name, front-matter id
\* ("" when the page has none).
DocPages == {
    [dir |-> "",              file |-> "intro",                          id |-> ""],
    [dir |-> "",              file |-> "getting-started",                id |-> "getting-started"],
    [dir |-> "",              file |-> "examples",                       id |-> ""],
    [dir |-> "",              file |-> "api-reference",                  id |-> "api-reference"],
    [dir |-> "configuration", file |-> "index",                          id |-> "configuration"],
    [dir |-> "core-concepts", file |-> "context",                        id |-> ""],
    [dir |-> "core-concepts", file |-> "logger",                         id |-> ""],
    [dir |-> "examples",      file |-> "index",                          id |-> "examples"],
    [dir |-> "examples",      file |-> "28-testing-patterns-vitest",     id |-> "testing-patterns-vitest"],
    [dir |-> "examples",      file |-> "29-testing-patterns-jest",       id |-> "testing-patterns-jest"],
    [dir |-> "examples",      file |-> "30-testing-redis-context",       id |-> "testing-redis-context"],
    [dir |-> "examples",      file |-> "31-testing-serializers",         id |-> "testing-serializers"],
    [dir |-> "examples",      file |-> "32-testing-transports-concepts", id |-> "testing-transports-concepts"],
    [dir |-> "examples",      file |-> "testing-overview",               id |-> "testing-overview"],
    [dir |-> "examples",      file |-> "advanced-testing",               id |-> "advanced-testing"],
    [dir |-> "production",    file |-> "index",                          id |-> "production"],
    [dir |-> "production",    file |-> "graceful-shutdown",              id |-> ""] }

\* The last segment of a page's route: its front-matter id or, without one,
\* its file name.
DocId(p) == IF p.id # "" THEN p.id ELSE p.file

\* The route of a documentation page: an index page is served at its
\* directory, any other page at its id under its directory.
DocRoute(p) ==
    IF p.file = "index" THEN "/docs/" \o p.dir
    ELSE "/docs/" \o (IF p.dir = "" THEN "" ELSE p.dir \o "/") \o DocId(p)

\* The routes of the pages under src/pages.
PageRoutes == {"/examples"}

Routes == {DocRoute(p) : p \in DocPages} \cup PageRoutes

\* A path without its trailing slash.
StripTrailingSlash(path) ==
    IF Len(path) > 1 /\ EndsWith(path, "/") THEN SubSeq(path, 1, Len(path) - 1) ELSE path

\* The path a link names, seen from the directory `base` of the page that
\* holds it.
RECURSIVE ResolveLink(_, _)
ResolveLink(base, href) ==
    IF StartsWith(href, "/") THEN href
    ELSE IF StartsWith(href, "./") THEN ResolveLink(base, Drop(href, 2))
    ELSE IF StartsWith(href, "../")
         THEN ResolveLink(SubSeq(base, 1, LastSlash(base) - 1), Drop(href, 3))
    ELSE base \o "/" \o href

\* Whether a link leads to a page of the site.
Resolves(link) ==
    StripTrailingSlash(ResolveLink(link.base, link.href)) \in Routes

\* Relative links between the pages of docs/examples.
MarkdownLinks(page) ==
    CASE page = "md_index" ->
           << "./testing-overview", "./testing-patterns-vitest", "./testing-patterns-jest",
              "./testing-redis-context", "./testing-serializers", "./testing-transports-concepts",
              "../getting-started", "../configuration", "../api-reference", "../production" >>
      [] page = "md_28" ->
           << "./testing-patterns-jest", "./testing-redis-context", "./advanced-testing" >>
      [] page = "md_30" ->
           << "./28-testing-patterns-vitest", "./29-testing-patterns-jest", "../31-advanced-testing" >>
      [] page = "md_32" ->
           << "./testing-patterns-vitest", "./testing-patterns-jest", "./testing-redis-context",
              "./testing-serializers" >>

MarkdownPages == {"md_index", "md_28", "md_30", "md_32"}

LinkSources == << "navbar", "footer", "cards", "md_index", "md_28", "md_30", "md_32" >>

\* The links of one source in the order it holds them.
LinksOf(source, cfg, page) ==
    LET hrefs == CASE source = "navbar" -> NavbarTo(cfg)
                   [] source = "footer" -> FooterTo(cfg)
                   [] source = "cards"  -> ExamplesPageTo(page)
                   [] OTHER             -> MarkdownLinks(source)
    IN  [i \in 1..Len(hrefs) |->
           [source |-> source,
            kind   |-> IF source \in MarkdownPages THEN "markdown" ELSE "to",
            base   |-> IF source \in MarkdownPages THEN "/docs/examples" ELSE "",
            href   |-> hrefs[i]]]

\* Every link of the site, source after source.
RECURSIVE LinksFrom(_, _, _)
LinksFrom(sources, cfg, page) ==
    IF sources = << >> THEN << >>
    ELSE LinksOf(Head(sources), cfg, page) \o LinksFrom(Tail(sources), cfg, page)

AllLinks(cfg, page) == LinksFrom(LinkSources, cfg, page)

\* The configured reaction to a broken link of each kind.
PolicyFor(kind) == IF kind = "markdown" THEN onBrokenMarkdownLinks ELSE onBrokenLinks

\* The generator loads one configuration, which Node.js evaluates with the
\* value of its constant, and one Examples page, and starts.
StartBuild(cfg, page, latest) ==
    /\ buildPhase = "idle"
    /\ config' = cfg
    /\ siteConfig' = [customFields |-> CustomFields(cfg, latest),
                      navbarHtml |-> NavbarHtml(cfg, latest)]
    /\ examplesPage' = page
    /\ buildPhase' = "checking"
    /\ UNCHANGED <<checked, brokenLinks, warnings, procVars, notifVars, libVars, renderVars>>

\* The link check meets the next link.
CheckLink ==
    /\ buildPhase = "checking"
    /\ checked < Len(AllLinks(config, examplesPage))
    /\ LET link == AllLinks(config, examplesPage)[checked + 1]
           policy == PolicyFor(link.kind)
       IN  /\ checked' = checked + 1
           /\ brokenLinks' = IF ~Resolves(link) /\ policy = "throw"
                             THEN brokenLinks \cup {link} ELSE brokenLinks
           /\ warnings' = IF ~Resolves(link) /\ policy = "warn"
                          THEN warnings \cup {link} ELSE warnings
    /\ UNCHANGED <<config, examplesPage, buildPhase, siteConfig, procVars, notifVars, libVars, renderVars>>

\* Every link was checked: the build throws when broken links were reported
\* under 'throw', and completes otherwise.
FinishBuild ==
    /\ buildPhase = "checking"
    /\ checked = Len(AllLinks(config, examplesPage))
    /\ buildPhase' = IF brokenLinks # {} THEN "failed" ELSE "built"
    /\ UNCHANGED <<config, examplesPage, checked, brokenLinks, warnings, siteConfig,
                   procVars, notifVars, libVars, renderVars>>

SiteNext ==
    \/ \E cfg \in Configs, page \in ExamplesPages, latest \in LatestVersions :
          StartBuild(cfg, page, latest)
    \/ CheckLink
    \/ FinishBuild

(***************************************************************************)
(* The boilerplate: boilerplate.ts and main.ts (Configuration Patterns,    *)
(* Getting Started, Graceful Shutdown pages), the boilerplate functions of *)
(* example 32 (src/index.ts), and the tests that call them.  A Node.js     *)
(* process: one macrotask at a time (a signal, the settling of a promise   *)
(* of the library), each followed by the microtasks it made ready, which   *)
(* run before the next macrotask.                                          *)
(***************************************************************************)

\* Signals delivered to one process.
MaxSignals == 2

NoError == "none"

\* What syntropyLog.init(), syntropyLog.shutdown() or apiClient.request()
\* may reject with.
Errors == {"E1", "E2"}

Signals == {"SIGINT", "SIGTERM"}

\* "main": main.ts with boilerplate.ts.  "test29": the tests 'should
\* initialize framework correctly' / 'should handle graceful shutdown' calling
\* the boilerplate.  "test32": example 32's tests calling its own src/index.ts.
Apps == {"main", "test29", "test32"}

\* JavaScript values: undefined, and objects by their properties.
Undefined == [kind |-> "undefined", props |-> {}]

SuccessResult == [kind |-> "object", props |-> {<<"success", "true">>}]

\* The syntropyLog singleton, by the methods the pages call on it.
SyntropyLogValue ==
    [kind |-> "object",
     props |-> {<<"init", "function">>, <<"shutdown", "function">>,
                <<"getLogger", "function">>, <<"getHttp", "function">>,
                <<"getBroker", "function">>, <<"getContextManager", "function">>}]

Pending == [status |-> "pending", value |-> Undefined, error |-> NoError]

NotCalled == [status |-> "none", value |-> Undefined, error |-> NoError]

Resolved(v) == [status |-> "resolved", value |-> v, error |-> NoError]

Rejected(e) == [status |-> "rejected", value |-> Undefined, error |-> e]

Log(stream, msg, err) == [stream |-> stream, msg |-> msg, error |-> err]

\* boilerplate.ts registers the signal handlers when it is imported.
HandlersInstalled(a) == a \in {"main", "test29"}

\* initializeSyntropyLog() up to its await.
InitializeStart(a) ==
    IF a = "test32" THEN << >>
    ELSE << Log("log", "Initializing SyntropyLog...", NoError) >>

\* initializeSyntropyLog() after `await syntropyLog.init(...)` resolved:
\* what it logs and how its promise settles.
InitializeOnResolved(a) ==
    IF a = "test32"
    THEN [logs |-> << >>, promise |-> Resolved(SyntropyLogValue)]
    ELSE [logs |-> << Log("log", "SyntropyLog initialized successfully!", NoError) >>,
          promise |-> Resolved(Undefined)]

\* A catch block that logs the error and forgets to re-throw it.
InitializeOnRejectedSwallowed(a, err) ==
    [logs |-> << Log("error", "SyntropyLog initialization failed:", err) >>,
     promise |-> Resolved(Undefined)]

\* initializeSyntropyLog() after `await syntropyLog.init(...)` rejected.
InitializeOnRejected(a, err) ==
    IF a = "test32"
    THEN [logs |-> << >>, promise |-> Rejected(err)]
    ELSE [logs |-> << Log("error", "SyntropyLog initialization failed:", err) >>,
          promise |-> Rejected(err)]

\* gracefulShutdown() / shutdownSyntropyLog() up to its await.
ShutdownStart(a) ==
    IF a = "test32" THEN << >>
    ELSE << Log("log", "Shutting down SyntropyLog gracefully...", NoError) >>

\* gracefulShutdown() / shutdownSyntropyLog() after `await
\* syntropyLog.shutdown()` resolved.
ShutdownOnResolved(a) ==
    IF a = "test32"
    THEN [logs |-> << >>, promise |-> Resolved(SuccessResult)]
    ELSE [logs |-> << Log("log", "SyntropyLog shutdown completed", NoError) >>,
          promise |-> Resolved(Undefined)]

\* A catch block that logs the error and re-throws it, as the one of
\* initializeSyntropyLog() does.
ShutdownOnRejectedRethrown(a, err) ==
    [logs |-> << Log("error", "Error during shutdown:", err) >>,
     promise |-> Rejected(err)]

\* gracefulShutdown() / shutdownSyntropyLog() after `await
\* syntropyLog.shutdown()` rejected.
ShutdownOnRejected(a, err) ==
    IF a = "test32"
    THEN [logs |-> << >>, promise |-> Rejected(err)]
    ELSE [logs |-> << Log("error", "Error during shutdown:", err) >>,
          promise |-> Resolved(Undefined)]

\* A macrotask may start: the process runs and no microtask is waiting.
Idle == ~exited /\ microtasks = << >>

Task(kind, idx) == [kind |-> kind, idx |-> idx]

\* The caller of the boilerplate: main() or a test body.
Caller == IF app = "main" THEN "main" ELSE "test"

\* node starts one of the programs: its modules are loaded (which, with
\* boilerplate.ts among them, registers the signal handlers).
Launch(a) ==
    /\ mainPc = "unloaded"
    /\ app' = a
    /\ mainPc' = "start"
    /\ UNCHANGED <<initCall, initFn, requestCall, handlers, shutdownCalls, shutdownFns,
                   microtasks, console, exited, exitCode, siteVars, notifVars, libVars, renderVars>>

\* main(), or the initialisation test, calls initializeSyntropyLog() and
\* awaits it; initializeSyntropyLog() calls syntropyLog.init() and awaits it.
CallInitialize ==
    /\ Idle
    /\ mainPc = "start"
    /\ console' = console \o InitializeStart(app)
    /\ initCall' = Pending
    /\ initFn' = Pending
    /\ mainPc' = "awaitInit"
    /\ UNCHANGED <<app, requestCall, handlers, shutdownCalls, shutdownFns,
                   microtasks, exited, exitCode,
                   siteVars, notifVars, libVars, renderVars>>

\* syntropyLog.init() settles.
SettleInit(err) ==
    /\ Idle
    /\ initCall.status = "pending"
    /\ initCall' = IF err = NoError THEN Resolved(Undefined) ELSE Rejected(err)
    /\ microtasks' = Append(microtasks, Task("initialize", 0))
    /\ UNCHANGED <<app, mainPc, initFn, requestCall, handlers, shutdownCalls,
                   shutdownFns, console, exited, exitCode,
                   siteVars, notifVars, libVars, renderVars>>

\* initializeSyntropyLog() resumes after its await and settles its promise.
ResumeInitialize ==
    /\ ~exited
    /\ microtasks # << >>
    /\ Head(microtasks).kind = "initialize"
    /\ LET r == IF initCall.status = "resolved"
                THEN InitializeOnResolved(app)
                ELSE InitializeOnRejected(app, initCall.error)
       IN  /\ console' = console \o r.logs
           /\ initFn' = r.promise
    /\ microtasks' = Append(Tail(microtasks), Task(Caller, 0))
    /\ UNCHANGED <<app, mainPc, initCall, requestCall, handlers, shutdownCalls,
                   shutdownFns, exited, exitCode,
                   siteVars, notifVars, libVars, renderVars>>

\* A catch block that reports the error and lets the process run on.
MainCatchKeepsRunning(err) ==
    [log |-> Log("error", "Application startup failed:", err), exit |-> FALSE, code |-> 0]

\* The catch block of main(): console.error(...), process.exit(1).
MainCatch(err) ==
    [log |-> Log("error", "Application startup failed:", err), exit |-> TRUE, code |-> 1]

\* main() resumes after `await initializeSyntropyLog()` or after `await
\* apiClient.request(...)`; a rejection lands in its catch block.
ResumeMain ==
    /\ ~exited
    /\ microtasks # << >>
    /\ Head(microtasks).kind = "main"
    /\ microtasks' = Tail(microtasks)
    /\ CASE mainPc = "awaitInit" /\ initFn.status = "resolved" ->
              /\ console' = console \o
                     << Log("logger", "Application started successfully", NoError),
                        Log("logger", "All resources initialized, starting application...", NoError) >>
              /\ requestCall' = Pending
              /\ mainPc' = "awaitRequest"
              /\ UNCHANGED <<exited, exitCode>>
         [] mainPc = "awaitInit" /\ initFn.status = "rejected" ->
              /\ console' = Append(console, MainCatch(initFn.error).log)
              /\ mainPc' = "failed"
              /\ exited' = MainCatch(initFn.error).exit
              /\ exitCode' = MainCatch(initFn.error).code
              /\ UNCHANGED requestCall
         [] mainPc = "awaitRequest" /\ requestCall.status = "resolved" ->
              /\ console' = Append(console, Log("logger", "Health check completed", NoError))
              /\ mainPc' = "done"
              /\ UNCHANGED <<requestCall, exited, exitCode>>
         [] mainPc = "awaitRequest" /\ requestCall.status = "rejected" ->
              /\ console' = Append(console, MainCatch(requestCall.error).log)
              /\ mainPc' = "failed"
              /\ exited' = MainCatch(requestCall.error).exit
              /\ exitCode' = MainCatch(requestCall.error).code
              /\ UNCHANGED requestCall
    /\ UNCHANGED <<app, initCall, initFn, handlers, shutdownCalls, shutdownFns,
                   siteVars, notifVars, libVars, renderVars>>

\* apiClient.request() settles.
SettleRequest(err) ==
    /\ Idle
    /\ requestCall.status = "pending"
    /\ requestCall' = IF err = NoError THEN Resolved(Undefined) ELSE Rejected(err)
    /\ microtasks' = Append(microtasks, Task("main", 0))
    /\ UNCHANGED <<app, mainPc, initCall, initFn, handlers, shutdownCalls,
                   shutdownFns, console, exited, exitCode,
                   siteVars, notifVars, libVars, renderVars>>

\* A signal arrives: its handler logs, calls gracefulShutdown() and awaits it;
\* gracefulShutdown() logs, calls syntropyLog.shutdown() and awaits it.
Signal(sig) ==
    /\ Idle
    /\ HandlersInstalled(app)
    /\ Len(handlers) < MaxSignals
    /\ console' = (console \o << Log("log", "Received " \o sig \o ", shutting down gracefully...", NoError) >>)
                    \o ShutdownStart(app)
    /\ shutdownCalls' = Append(shutdownCalls, Pending)
    /\ shutdownFns' = Append(shutdownFns, Pending)
    /\ handlers' = Append(handlers, [signal |-> sig, pc |-> "awaitShutdown", fn |-> Len(shutdownFns) + 1])
    /\ UNCHANGED <<app, mainPc, initCall, initFn, requestCall, microtasks, exited, exitCode,
                   siteVars, notifVars, libVars, renderVars>>

\* The shutdown test calls gracefulShutdown() / shutdownSyntropyLog() and
\* awaits it.
CallShutdown ==
    /\ Idle
    /\ app # "main"
    /\ mainPc = "initTested"
    /\ console' = console \o ShutdownStart(app)
    /\ shutdownCalls' = Append(shutdownCalls, Pending)
    /\ shutdownFns' = Append(shutdownFns, Pending)
    /\ mainPc' = "awaitShutdown"
    /\ UNCHANGED <<app, initCall, initFn, requestCall, handlers, microtasks, exited, exitCode,
                   siteVars, notifVars, libVars, renderVars>>

\* One call of syntropyLog.shutdown() settles.
SettleShutdown(k, err) ==
    /\ Idle
    /\ k \in 1..Len(shutdownCalls)
    /\ shutdownCalls[k].status = "pending"
    /\ shutdownCalls' = [shutdownCalls EXCEPT
                           ![k] = IF err = NoError THEN Resolved(Undefined) ELSE Rejected(err)]
    /\ microtasks' = Append(microtasks, Task("shutdown", k))
    /\ UNCHANGED <<app, mainPc, initCall, initFn, requestCall, handlers,
                   shutdownFns, console, exited, exitCode,
                   siteVars, notifVars, libVars, renderVars>>

\* Who awaits the k-th gracefulShutdown(): a signal handler or the test.
ShutdownCaller(k) ==
    IF \E h \in 1..Len(handlers) : handlers[h].fn = k
    THEN Task("handler", CHOOSE h \in 1..Len(handlers) : handlers[h].fn = k)
    ELSE Task("test", 0)

\* gracefulShutdown() / shutdownSyntropyLog() resumes after its await and
\* settles its promise.
ResumeShutdown ==
    /\ ~exited
    /\ microtasks # << >>
    /\ Head(microtasks).kind = "shutdown"
    /\ LET k == Head(microtasks).idx
           r == IF shutdownCalls[k].status = "resolved"
                THEN ShutdownOnResolved(app)
                ELSE ShutdownOnRejected(app, shutdownCalls[k].error)
       IN  /\ console' = console \o r.logs
           /\ shutdownFns' = [shutdownFns EXCEPT ![k] = r.promise]
           /\ microtasks' = Append(Tail(microtasks), ShutdownCaller(k))
    /\ UNCHANGED <<app, mainPc, initCall, initFn, requestCall, handlers,
                   shutdownCalls, exited, exitCode,
                   siteVars, notifVars, libVars, renderVars>>

\* A signal handler resumes after `await gracefulShutdown()`: process.exit(0);
\* had gracefulShutdown() rejected, the handler's own promise would reject
\* with nothing to catch it, which ends the process with code 1.
ResumeHandler ==
    /\ ~exited
    /\ microtasks # << >>
    /\ Head(microtasks).kind = "handler"
    /\ LET h == Head(microtasks).idx
       IN  /\ handlers' = [handlers EXCEPT ![h].pc = "exit"]
           /\ exitCode' = IF shutdownFns[handlers[h].fn].status = "resolved" THEN 0 ELSE 1
    /\ exited' = TRUE
    /\ microtasks' = Tail(microtasks)
    /\ UNCHANGED <<app, mainPc, initCall, initFn, requestCall, shutdownCalls,
                   shutdownFns, console,
                   siteVars, notifVars, libVars, renderVars>>

\* A test body resumes after its await: the test ends (passed or failed) and
\* the next one may start.
ResumeTest ==
    /\ ~exited
    /\ microtasks # << >>
    /\ Head(microtasks).kind = "test"
    /\ microtasks' = Tail(microtasks)
    /\ mainPc' = IF mainPc = "awaitInit" THEN "initTested" ELSE "done"
    /\ UNCHANGED <<app, initCall, initFn, requestCall, handlers, shutdownCalls,
                   shutdownFns, console, exited, exitCode,
                   siteVars, notifVars, libVars, renderVars>>

ProcNext ==
    \/ \E a \in Apps : Launch(a)
    \/ CallInitialize
    \/ \E e \in Errors \cup {NoError} : SettleInit(e)
    \/ ResumeInitialize
    \/ ResumeMain
    \/ \E e \in Errors \cup {NoError} : SettleRequest(e)
    \/ \E sig \in Signals : Signal(sig)
    \/ CallShutdown
    \/ \E k \in 1..MaxSignals + 1, e \in Errors \cup {NoError} : SettleShutdown(k, e)
    \/ ResumeShutdown
    \/ ResumeHandler
    \/ ResumeTest

(***************************************************************************)
(* Example 32: NotificationService and the test bodies that call it.  The  *)
(* logger hands every entry to the test transport, which keeps the entries *)
(* in memory in the order they were logged.                                *)
(***************************************************************************)

\* Calls one test body starts (with Promise.all when more than one).
MaxCalls == 2

\* Tests one run of the suite executes.
MaxTests == 3

\* this.delay(100) in sendWelcomeNotification, this.delay(200) in sendPasswordReset.
WelcomeDelayMs == 100

PasswordResetDelayMs == 200

Ops == {"sendWelcomeNotification", "sendPasswordReset"}

\* The users the tests pass.
Users == {
    [id |-> 1,   name |-> "User1", email |-> "user1@example.com"],
    [id |-> 2,   name |-> "User2", email |-> "user2@example.com"],
    [id |-> 123, name |-> "John",  email |-> "john@example.com"] }

\* A transport that keeps only the entry it was handed last.
CaptureLatestOnly(captured, entry) == << entry >>

\* The transport captures one entry.
Capture(captured, entry) == Append(captured, entry)

\* logger.<level>(message, meta): the entry handed to the transport.
LogEntry(level, message, meta) ==
    [f \in {"level", "message"} \cup DOMAIN meta |->
        IF f = "level" THEN level ELSE IF f = "message" THEN message ELSE meta[f]]

\* Both operations logging their start entry at level info.
StartEntryAtInfo(op, user) ==
    IF op = "sendWelcomeNotification"
    THEN LogEntry("info", "Sending welcome notification", [userId |-> user.id])
    ELSE LogEntry("info", "Password reset requested", [userId |-> user.id])

\* What each operation logs before its await.
StartEntry(op, user) ==
    IF op = "sendWelcomeNotification"
    THEN LogEntry("info", "Sending welcome notification", [userId |-> user.id])
    ELSE LogEntry("warn", "Password reset requested", [userId |-> user.id])

\* What each operation logs after its await.
CompletionEntry(op, user) ==
    IF op = "sendWelcomeNotification"
    THEN LogEntry("info", "Welcome notification sent", [userId |-> user.id, email |-> user.email])
    ELSE LogEntry("info", "Password reset email sent", [userId |-> user.id, email |-> user.email])

DelayMs(op) == IF op = "sendWelcomeNotification" THEN WelcomeDelayMs ELSE PasswordResetDelayMs

\* The calls of `batch` made one after the other, each running up to its
\* await: it logs its start entry and sets its timer.
RECURSIVE StartCalls(_, _, _)
StartCalls(batch, started, captured) ==
    IF batch = << >> THEN [calls |-> started, entries |-> captured]
    ELSE LET c == Head(batch)
         IN  StartCalls(Tail(batch),
                        Append(started, [op |-> c[1], user |-> c[2], pc |-> "delay",
                                         due |-> now + DelayMs(c[1])]),
                        Capture(captured, StartEntry(c[1], c[2])))

\* What a spy of the mock logger records of one call.
SpyCall(entry) == [method |-> entry.level, message |-> entry.message]

\* The spies' record after the logger was called for the entries `captured`
\* holds beyond the first `before`.
Spied(spies, captured, before) ==
    spies \o [i \in 1..(Len(captured) - before) |-> SpyCall(captured[before + i])]

\* A testHelper.beforeEach() that leaves the mock as the last test left it.
TestHelperBeforeEachKeepsMock(helper) == helper

\* testHelper.beforeEach(): "Reset mocks and create fresh instances".
TestHelperBeforeEach(helper) ==
    [instance |-> helper.instance + 1, entries |-> << >>, spyCalls |-> << >>]

\* The suite's beforeEach hook: testHelper.beforeEach(), then a new
\* NotificationService.
BeforeEachHook ==
    /\ testPc = "setup"
    /\ testsRun < MaxTests
    /\ LET helper == TestHelperBeforeEach([instance |-> mockInstance, entries |-> entries,
                                          spyCalls |-> spyCalls])
       IN  /\ mockInstance' = helper.instance
           /\ entries' = helper.entries
           /\ spyCalls' = helper.spyCalls
    /\ calls' = << >>
    /\ testsRun' = testsRun + 1
    /\ testPc' = "start"
    /\ UNCHANGED <<now, siteVars, procVars, libVars, renderVars>>

\* The suite's afterEach hook: testHelper.afterEach(), of which the pages
\* document no effect on the mock; the runner goes on to the next test.
AfterEachHook ==
    /\ testPc = "done"
    /\ testPc' = "setup"
    /\ UNCHANGED <<calls, entries, now, testsRun, mockInstance, spyCalls,
                   siteVars, procVars, libVars, renderVars>>

\* A test body calls the service: one call, or several inside Promise.all,
\* and awaits the result.
StartTest(batch) ==
    /\ testPc = "start"
    /\ LET r == StartCalls(batch, calls, entries)
       IN  /\ calls' = r.calls
           /\ entries' = r.entries
           /\ spyCalls' = Spied(spyCalls, r.entries, Len(entries))
    /\ testPc' = "awaiting"
    /\ UNCHANGED <<now, testsRun, mockInstance, siteVars, procVars, libVars, renderVars>>

\* The test 'should provide spy functions for assertions': the test body
\* calls logger.info('Test message') on the mock's logger and asserts on the
\* spy alone.
SpyTest ==
    /\ testPc = "start"
    /\ spyCalls' = Append(spyCalls, [method |-> "info", message |-> "Test message"])
    /\ testPc' = "done"
    /\ UNCHANGED <<calls, entries, now, testsRun, mockInstance,
                   siteVars, procVars, libVars, renderVars>>

\* The timer that is due first fires (timers due together fire in the order
\* they were set): the call resumes, logs its completion entry and returns.
FireTimer(c) ==
    /\ testPc = "awaiting"
    /\ c \in 1..Len(calls)
    /\ calls[c].pc = "delay"
    /\ \A d \in 1..Len(calls) :
          calls[d].pc = "delay" /\ d # c =>
             \/ calls[d].due > calls[c].due
             \/ calls[d].due = calls[c].due /\ d > c
    /\ now' = calls[c].due
    /\ entries' = Capture(entries, CompletionEntry(calls[c].op, calls[c].user))
    /\ spyCalls' = Append(spyCalls, SpyCall(CompletionEntry(calls[c].op, calls[c].user)))
    /\ calls' = [calls EXCEPT ![c].pc = "done"]
    /\ UNCHANGED <<testPc, testsRun, mockInstance, siteVars, procVars, libVars, renderVars>>

\* Every call returned: the awaited promise resolves and the test body goes
\* on to its assertions.
FinishTest ==
    /\ testPc = "awaiting"
    /\ \A c \in 1..Len(calls) : calls[c].pc = "done"
    /\ testPc' = "done"
    /\ UNCHANGED <<calls, entries, now, testsRun, mockInstance, spyCalls,
                   siteVars, procVars, libVars, renderVars>>

NotifNext ==
    \/ BeforeEachHook
    \/ AfterEachHook
    \/ SpyTest
    \/ \E n \in 1..MaxCalls : \E batch \in [1..n -> Ops \X Users] : StartTest(batch)
    \/ \E c \in 1..MaxCalls : FireTimer(c)
    \/ FinishTest

(***************************************************************************)
(* The syntropylog library, as the pages of the site document it: the      *)
(* resource accessors, the context manager, the loggingMatrix and data     *)
(* masking.  An entry is assembled from the context fields the matrix      *)
(* selects for its level and the metadata of the call, and is masked       *)
(* before it reaches the transports.                                       *)
(***************************************************************************)

\* Accessor calls one run makes.
MaxAccessorCalls == 3

\* The accessors and the names the pages call them with ("" where the call
\* passes none).
AccessorCalls ==
    {<<"getLogger", "">>, <<"getLogger", "user-service">>, <<"getLogger", "main">>,
     <<"getHttp", "api">>, <<"getHttp", "api-client">>,
     <<"getContextManager", "">>}

\* The instances an accessor made under one name.
Lookup(registry, accessor, name) ==
    {i \in registry : i.accessor = accessor /\ i.name = name}

\* An accessor that makes a new instance at every call.
GetInstanceAlwaysNew(registry, accessor, name) ==
    LET new == [accessor |-> accessor, name |-> name, id |-> Cardinality(registry) + 1]
    IN  [registry |-> registry \cup {new}, instance |-> new]

\* "First call - creates and returns new instance.  Second call - returns
\* the SAME instance (singleton)."
GetInstance(registry, accessor, name) ==
    IF Lookup(registry, accessor, name) # {}
    THEN [registry |-> registry,
          instance |-> CHOOSE i \in Lookup(registry, accessor, name) : TRUE]
    ELSE LET new == [accessor |-> accessor, name |-> name, id |-> Cardinality(registry) + 1]
         IN  [registry |-> registry \cup {new}, instance |-> new]

Includes(list, x) == \E i \in 1..Len(list) : list[i] = x

\* The loggingMatrix configurations of the pages.
MatrixConfigs == {
    [l \in {"default", "trace", "debug", "info", "warn", "error", "fatal"} |->
        CASE l = "default" -> << "correlationId" >>
          [] l = "trace"   -> << "*" >>
          [] l = "debug"   -> << "correlationId", "userId", "operation" >>
          [] l = "info"    -> << "correlationId", "serviceName" >>
          [] l = "warn"    -> << "correlationId", "userId", "errorCode" >>
          [] l = "error"   -> << "*" >>
          [] l = "fatal"   -> << "*" >>],
    [l \in {"default", "error"} |->
        IF l = "default" THEN << "correlationId", "serviceName" >> ELSE << "*" >>],
    [l \in {"default", "error"} |->
        IF l = "default" THEN << "correlationId" >> ELSE << "*" >>] }

\* The arguments the pages pass to syntropyLog.updateLoggingMatrix().
MatrixUpdates == {
    [l \in {"info"} |-> << "correlationId", "serviceName", "userId", "operation" >>],
    [l \in {"error"} |-> << "correlationId", "userId", "errorCode" >>],
    [l \in {"info", "error"} |->
        IF l = "info" THEN << "correlationId", "serviceName", "userId" >>
        ELSE << "correlationId", "userId", "errorCode" >>] }

\* masking: { fields: ['password', 'token', 'creditCard', 'ssn'], replacement: '***' }
MaskingConfig ==
    [fields |-> << "password", "token", "creditCard", "ssn" >>, replacement |-> "***"]

\* The correlation id the library generates.
CorrelationContext == [f \in {"correlationId"} |-> "abc-123"]

\* What contextManager.set() is called with.
ContextValues ==
    [f \in {"serviceName", "tenantId", "token"} |->
        CASE f = "serviceName" -> "user-service"
          [] f = "tenantId"    -> "tenant-1"
          [] f = "token"       -> "secret-token"]

LogLevels == {"info", "warn", "error"}

\* The metadata a log call passes: none, or that of 'User created'.
LogMetas == {
    [f \in {} |-> ""],
    [f \in {"email", "password"} |->
        IF f = "email" THEN "user@example.com" ELSE "secret123"] }

\* Object spread: the fields of both, those of `b` winning.
Merge(a, b) == [f \in DOMAIN a \cup DOMAIN b |-> IF f \in DOMAIN b THEN b[f] ELSE a[f]]

\* updateLoggingMatrix(): the levels passed are replaced, the others kept.
UpdateMatrix(matrix, partial) == Merge(matrix, partial)

\* A matrix whose levels without entry select nothing.
MatrixFieldsNoDefault(matrix, level) ==
    IF level \in DOMAIN matrix THEN matrix[level] ELSE << >>

\* The fields the matrix names for a level: the level's own list, the
\* default list when the level has none.
MatrixFields(matrix, level) ==
    IF level \in DOMAIN matrix THEN matrix[level] ELSE matrix["default"]

\* The context fields a list selects: all of them with '*'.
FilterContext(ctx, list) ==
    IF Includes(list, "*") THEN ctx
    ELSE [f \in {g \in DOMAIN ctx : Includes(list, g)} |-> ctx[f]]

\* Masking: the value of every configured field is replaced.
Mask(fields, cfg) ==
    [f \in DOMAIN fields |-> IF Includes(cfg.fields, f) THEN cfg.replacement ELSE fields[f]]

\* An entry whose metadata is masked before the context is added to it.
EmitMaskingMetaOnly(ctx, matrix, cfg, level, message, meta) ==
    Merge(FilterContext(ctx, MatrixFields(matrix, level)),
          Mask(Merge(meta, [f \in {"message"} |-> message]), cfg))

\* logger.<level>(message, meta): the entry handed to the transports.
Emit(ctx, matrix, cfg, level, message, meta) ==
    Mask(Merge(FilterContext(ctx, MatrixFields(matrix, level)),
               Merge(meta, [f \in {"message"} |-> message])),
         cfg)

\* await syntropyLog.init({ loggingMatrix, masking, ... }) has resolved.
LibInit(matrix) ==
    /\ libPc = "created"
    /\ libPc' = "ready"
    /\ loggingMatrix' = matrix
    /\ masking' = MaskingConfig
    /\ context' = CorrelationContext
    /\ UNCHANGED <<instances, returned, emitted, siteVars, procVars, notifVars, renderVars>>

\* syntropyLog.getLogger(name), getHttp(name) or getContextManager().
CallAccessor(accessor, name) ==
    /\ libPc = "ready"
    /\ Len(returned) < MaxAccessorCalls
    /\ LET r == GetInstance(instances, accessor, name)
       IN  /\ instances' = r.registry
           /\ returned' = Append(returned, r.instance)
    /\ UNCHANGED <<libPc, context, loggingMatrix, masking, emitted,
                   siteVars, procVars, notifVars, renderVars>>

\* contextManager.set(field, value).
ContextSet(field) ==
    /\ libPc = "ready"
    /\ field \notin DOMAIN context
    /\ context' = Merge(context, [f \in {field} |-> ContextValues[field]])
    /\ UNCHANGED <<libPc, instances, returned, loggingMatrix, masking, emitted,
                   siteVars, procVars, notifVars, renderVars>>

\* syntropyLog.updateLoggingMatrix(partial).
UpdateLoggingMatrix(partial) ==
    /\ libPc = "ready"
    /\ loggingMatrix' = UpdateMatrix(loggingMatrix, partial)
    /\ loggingMatrix' # loggingMatrix
    /\ UNCHANGED <<libPc, instances, returned, context, masking, emitted,
                   siteVars, procVars, notifVars, renderVars>>

\* logger.<level>('User created', meta): the transports receive the entry;
\* the context, matrix and metadata it was made from are kept with it.
LogCall(level, meta) ==
    /\ libPc = "ready"
    /\ emitted' = << [level |-> level, ctx |-> context, matrix |-> loggingMatrix, meta |-> meta,
                      fields |-> Emit(context, loggingMatrix, masking, level, "User created", meta)] >>
    /\ UNCHANGED <<libPc, instances, returned, context, loggingMatrix, masking,
                   siteVars, procVars, notifVars, renderVars>>

AccessorNext ==
    \/ \E matrix \in MatrixConfigs : LibInit(matrix)
    \/ \E call \in AccessorCalls : CallAccessor(call[1], call[2])

LoggingNext ==
    \/ \E matrix \in MatrixConfigs : LibInit(matrix)
    \/ \E field \in DOMAIN ContextValues : ContextSet(field)
    \/ \E partial \in MatrixUpdates : UpdateLoggingMatrix(partial)
    \/ \E level \in LogLevels, meta \in LogMetas : LogCall(level, meta)

(***************************************************************************)
(* The presentational components: HomepageFeatures (the module under      *)
(* src/components and the one of part_001) and the Examples page of       *)
(* part_000.  A render maps the module's array to elements, one callback  *)
(* call per entry; an element is written by its type, its key and the     *)
(* texts and attributes the component places in it.  TLA+ strings are     *)
(* ASCII: an emoji of a title is written by its name in brackets.         *)
(***************************************************************************)

\* Renders one run performs.
MaxRenders == 3

HomepageModules == {"HomepageFeatures/index.tsx", "part_001"}

Components == HomepageModules \cup {"part_000", "examples.tsx"}

\* const FeatureList = [...] of each module.
FeatureList(module) ==
    IF module = "HomepageFeatures/index.tsx"
    THEN << [title |-> "Zero Boilerplate",
             Svg |-> "@site/static/img/undraw_docusaurus_mountain.svg",
             description |-> "Get started in 30 seconds with automatic context propagation and structured logging. Focus on your business logic, not observability setup."],
            [title |-> "Automatic Correlation",
             Svg |-> "@site/static/img/undraw_docusaurus_tree.svg",
             description |-> "Distributed tracing with automatic correlation IDs across services, HTTP calls, and message brokers. Zero configuration required."],
            [title |-> "Framework Agnostic",
             Svg |-> "@site/static/img/undraw_docusaurus_react.svg",
             description |-> "Works seamlessly with Express, Fastify, Koa, NestJS, and any Node.js application. No vendor lock-in, no framework dependencies."] >>
    ELSE << [title |-> "[rocket] Production Ready",
             Svg |-> "@site/static/img/undraw_docusaurus_mountain.svg",
             description |-> "94.1% test coverage, comprehensive examples, and battle-tested in production environments. Built for high-performance teams who need reliability."],
            [title |-> "[arrows] Framework Agnostic",
             Svg |-> "@site/static/img/undraw_docusaurus_tree.svg",
             description |-> "Works seamlessly across Express, Fastify, Koa, NestJS, and any Node.js application type. No vendor lock-in, no framework dependencies."],
            [title |-> "[link] Automatic Correlation",
             Svg |-> "@site/static/img/undraw_docusaurus_react.svg",
             description |-> "Distributed tracing with correlation IDs across services, HTTP calls, and message brokers. Zero configuration required."],
            [title |-> "[target] Zero Boilerplate",
             Svg |-> "@site/static/img/undraw_docusaurus_mountain.svg",
             description |-> "Get started in 30 seconds with automatic context propagation and structured logging. Focus on your business logic, not observability setup."],
            [title |-> "[shield] Security First",
             Svg |-> "@site/static/img/undraw_docusaurus_tree.svg",
             description |-> "Built-in data masking, secure configurations, and compliance-ready logging. Protect sensitive data automatically."],
            [title |-> "[bolt] High Performance",
             Svg |-> "@site/static/img/undraw_docusaurus_react.svg",
             description |-> "Optimized for production with minimal overhead and intelligent log scoping. 45,000+ ops/sec with less than 1ms latency."] >>

\* A Feature that destructures its props in the wrong order.
FeatureTitleAndDescriptionSwapped(props, key) ==
    [type |-> "Feature", key |-> key, className |-> "col col--4",
     svg |-> [component |-> props.Svg, role |-> "img"],
     heading |-> [as |-> "h3", text |-> props.description],
     paragraph |-> props.title]

\* <Feature key={idx} {...props} />: the Svg, the title in a Heading h3, the
\* description in a paragraph.
Feature(props, key) ==
    [type |-> "Feature", key |-> key, className |-> "col col--4",
     svg |-> [component |-> props.Svg, role |-> "img"],
     heading |-> [as |-> "h3", text |-> props.title],
     paragraph |-> props.description]

\* <ExampleCard key={idx} example={example} />
ExampleCard(example, key) ==
    [type |-> "ExampleCard", key |-> key,
     heading |-> (example.number \o " - ") \o example.title,
     paragraph |-> example.description,
     link |-> [to |-> ExampleCardTo(example), text |-> "View Example"]]

\* An ExampleCategory that renders the first example of the category only.
ExampleCategoryFirstCardOnly(category, key) ==
    [type |-> "ExampleCategory", key |-> key,
     heading |-> [as |-> "h2", text |-> category.title],
     paragraph |-> category.description,
     cards |-> << ExampleCard(category.examples[1], 0) >>]

\* <ExampleCategory key={idx} category={category} />: the title, the
\* description and category.examples.map(...) to the cards.
ExampleCategory(category, key) ==
    [type |-> "ExampleCategory", key |-> key,
     heading |-> [as |-> "h2", text |-> category.title],
     paragraph |-> category.description,
     cards |-> [j \in 1..Len(category.examples) |-> ExampleCard(category.examples[j], j - 1)]]

\* Examples (src/pages/examples.tsx): the rows of the page that carry the
\* catalogue, in document order: the two h2 headings and, under each, the
\* sections with their h3 heading and their columns of <li><strong> items.
ExamplesPageRows == <<
    [tag |-> "h2", text |-> "[check] Complete & Tested Examples", columns |-> << >>],
    [tag |-> "h3", text |-> "[rocket] Core Framework Features (00-09)",
     columns |-> <<
       [h4 |-> "Basic Setup",
        items |-> << "00-setup-initialization", "01-hello-world", "02-basic-context",
                     "03-context-ts" >>],
       [h4 |-> "Configuration",
        items |-> << "04-logging-levels-transports", "05-universal-context-patterns",
                     "06-error-handling", "07-logger-configuration", "08-logging-matrix",
                     "09-http-configuration" >>] >>],
    [tag |-> "h3", text |-> "[globe] HTTP & Redis Integration (10-13)",
     columns |-> <<
       [h4 |-> "HTTP Configuration",
        items |-> << "10-basic-http-correlation", "11-custom-adapter" >>],
       [h4 |-> "Framework Integration",
        items |-> << "12-http-redis-axios", "13-http-redis-fastify" >>] >>],
    [tag |-> "h3", text |-> "[satellite] Message Brokers & Correlation (20-24)",
     columns |-> <<
       [h4 |-> "Basic Integration",
        items |-> << "20-basic-kafka-correlation", "21-basic-rabbitmq-broker",
                     "22-basic-nats-broker" >>],
       [h4 |-> "Advanced Patterns",
        items |-> << "23-kafka-full-stack", "24-full-stack-nats" >>] >>],
    [tag |-> "h2", text |-> "[construction] In Development Examples", columns |-> << >>],
    [tag |-> "h3", text |-> "[wrench] Advanced Framework Features (14-19)",
     columns |-> <<
       [h4 |-> "Framework Integration",
        items |-> << "14-http-redis-nestjs", "15-http-redis-koa", "16-http-redis-hapi" >>],
       [h4 |-> "Custom Features",
        items |-> << "17-custom-serializers", "18-custom-transports", "19-doctor-cli" >>] >>],
    [tag |-> "h3", text |-> "[office] Enterprise Patterns (25-27)",
     columns |-> <<
       [h4 |-> "",
        items |-> << "25-production-configuration", "26-advanced-context",
                     "27-complete-enterprise-app" >>] >> ] >>

\* The <strong> texts of the columns of one row, column after column.
RECURSIVE ColumnItems(_)
ColumnItems(columns) ==
    IF columns = << >> THEN << >>
    ELSE Head(columns).items \o ColumnItems(Tail(columns))

\* A row that renders the list of its first column only.
ExamplesRowFirstColumnOnly(row, key) ==
    [type |-> "Row", key |-> key, tag |-> row.tag, text |-> row.text,
     items |-> IF row.columns = << >> THEN << >> ELSE row.columns[1].items]

\* One row of the Examples page as the browser shows it: the heading and the
\* list items of all its columns.
ExamplesRow(row, key) ==
    [type |-> "Row", key |-> key, tag |-> row.tag, text |-> row.text,
     items |-> ColumnItems(row.columns)]

\* docs/examples/index.md, "Core Framework Examples": the two headings with
\* the ranges they state and the ranges of their bullets.
CoreFrameworkExamples == <<
    [heading |-> "[check] Complete & Tested (00-13, 20-24)",
     bullets |-> << "00-09", "10-13", "20-24" >>],
    [heading |-> "[construction] In Development (14-19, 25-27)",
     bullets |-> << "14-19", "25-27" >>] >>

\* docs/examples.md, "Available Examples": the tables with, for each row, the
\* label and the target of its link.
AvailableExamples == <<
    [heading |-> "[rocket] Basics (00-09)",
     rows |-> <<
       [label |-> "00 - Setup and Initialization", href |-> "../examples/00-setup-initialization"],
       [label |-> "01 - Hello World", href |-> "../examples/01-hello-world"],
       [label |-> "02 - Basic Context", href |-> "../examples/02-basic-context"],
       [label |-> "03 - Context with TypeScript", href |-> "../examples/03-context-ts"],
       [label |-> "04 - Levels and Transports", href |-> "../examples/04-logging-levels-transports"],
       [label |-> "05 - Configuration Patterns", href |-> "../examples/05-universal-context-patterns"],
       [label |-> "06 - Error Handling", href |-> "../examples/06-error-handling"],
       [label |-> "07 - Performance Monitoring", href |-> "../examples/07-performance-monitoring"],
       [label |-> "08 - Logging Matrix", href |-> "../examples/08-logging-matrix"],
       [label |-> "09 - HTTP Configuration", href |-> "../examples/09-http-configuration"] >>],
    [heading |-> "[globe] HTTP and Redis (10-19)",
     rows |-> <<
       [label |-> "10 - Basic HTTP Correlation", href |-> "../examples/10-basic-http-correlation"],
       [label |-> "11 - Custom Adapter", href |-> "../examples/11-custom-adapter"],
       [label |-> "12 - HTTP + Redis + Axios", href |-> "../examples/12-http-redis-axios"],
       [label |-> "13 - HTTP + Redis + Fastify", href |-> "../examples/13-http-redis-fastify"],
       [label |-> "14 - HTTP + Redis + NestJS", href |-> "../examples/14-http-redis-nestjs"],
       [label |-> "15 - HTTP + Redis + Koa", href |-> "../examples/15-http-redis-koa"],
       [label |-> "16 - HTTP + Redis + Hapi", href |-> "../examples/16-http-redis-hapi"] >>],
    [heading |-> "[incoming envelope] Message Brokers (20-24)",
     rows |-> <<
       [label |-> "20 - Basic Kafka Correlation", href |-> "../examples/20-basic-kafka-correlation"],
       [label |-> "21 - RabbitMQ Broker", href |-> "../examples/21-basic-rabbitmq-broker"],
       [label |-> "22 - NATS Broker", href |-> "../examples/22-basic-nats-broker"],
       [label |-> "23 - Kafka Full Stack", href |-> "../examples/23-kafka-full-stack"],
       [label |-> "24 - NATS Full Stack", href |-> "../examples/24-full-stack-nats"] >>] >>

Reverse(array) == [i \in 1..Len(array) |-> array[Len(array) + 1 - i]]

\* array.reverse().map(...): reverse() reorders the array in place.
MapSourceReversedInPlace(array) == Reverse(array)

\* array.map(...): map reads the array and leaves it as it is.
MapSource(array) == array

\* The array the component being rendered maps; the Examples page of
\* src/pages/examples.tsx maps none, its rows are written out in the JSX.
RenderedArray ==
    IF renderTarget \in HomepageModules THEN featureLists[renderTarget]
    ELSE IF renderTarget = "part_000" THEN exampleCategories
    ELSE ExamplesPageRows

\* React calls the component: the render starts and map() takes the array.
StartRender(component) ==
    /\ renderTarget = "none"
    /\ Len(renders) < MaxRenders
    /\ renderTarget' = component
    /\ markup' = << >>
    /\ IF component \in HomepageModules
       THEN /\ featureLists' = [featureLists EXCEPT ![component] = MapSource(@)]
            /\ UNCHANGED exampleCategories
       ELSE IF component = "part_000"
       THEN /\ exampleCategories' = MapSource(exampleCategories)
            /\ UNCHANGED featureLists
       ELSE UNCHANGED <<featureLists, exampleCategories>>
    /\ UNCHANGED <<renders, siteVars, procVars, notifVars, libVars>>

\* One call of the callback of FeatureList.map((props, idx) => ...).
RenderFeature ==
    /\ renderTarget \in HomepageModules
    /\ Len(markup) < Len(RenderedArray)
    /\ markup' = Append(markup, Feature(RenderedArray[Len(markup) + 1], Len(markup)))
    /\ UNCHANGED <<featureLists, exampleCategories, renderTarget, renders,
                   siteVars, procVars, notifVars, libVars>>

\* One call of the callback of ExampleCategories.map((category, idx) => ...).
RenderCategory ==
    /\ renderTarget = "part_000"
    /\ Len(markup) < Len(RenderedArray)
    /\ markup' = Append(markup, ExampleCategory(RenderedArray[Len(markup) + 1], Len(markup)))
    /\ UNCHANGED <<featureLists, exampleCategories, renderTarget, renders,
                   siteVars, procVars, notifVars, libVars>>

\* The next row of the JSX of the Examples page of src/pages/examples.tsx.
RenderRow ==
    /\ renderTarget = "examples.tsx"
    /\ Len(markup) < Len(RenderedArray)
    /\ markup' = Append(markup, ExamplesRow(RenderedArray[Len(markup) + 1], Len(markup)))
    /\ UNCHANGED <<featureLists, exampleCategories, renderTarget, renders,
                   siteVars, procVars, notifVars, libVars>>

\* Every entry was mapped, every row was rendered: the component returns its
\* element with its children.
FinishRender ==
    /\ renderTarget # "none"
    /\ Len(markup) = Len(RenderedArray)
    /\ renders' = Append(renders, [component |-> renderTarget, children |-> markup])
    /\ renderTarget' = "none"
    /\ markup' = << >>
    /\ UNCHANGED <<featureLists, exampleCategories, siteVars, procVars, notifVars, libVars>>

RenderNext ==
    \/ \E component \in Components : StartRender(component)
    \/ RenderFeature
    \/ RenderCategory
    \/ RenderRow
    \/ FinishRender

(***************************************************************************)
(* The specifications.                                                     *)
(***************************************************************************)

\* Nothing has run yet: the generator has not started, no program was
\* launched, the test run has set up no test, the library was not
\* initialised, and the modules of the components were loaded (their arrays
\* hold what the modules define) with nothing rendered.
Init ==
    /\ config = "ts"
    /\ examplesPage = "examples.tsx"
    /\ buildPhase = "idle"
    /\ checked = 0
    /\ brokenLinks = {}
    /\ warnings = {}
    /\ siteConfig = [customFields |-> {}, navbarHtml |-> << >>]
    /\ app = "none"
    /\ mainPc = "unloaded"
    /\ initCall = NotCalled
    /\ initFn = NotCalled
    /\ requestCall = NotCalled
    /\ handlers = << >>
    /\ shutdownCalls = << >>
    /\ shutdownFns = << >>
    /\ microtasks = << >>
    /\ console = << >>
    /\ exited = FALSE
    /\ exitCode = 0
    /\ calls = << >>
    /\ entries = << >>
    /\ now = 0
    /\ testPc = "setup"
    /\ testsRun = 0
    /\ mockInstance = 0
    /\ spyCalls = << >>
    /\ libPc = "created"
    /\ instances = {}
    /\ returned = << >>
    /\ context = << >>
    /\ loggingMatrix = << >>
    /\ masking = [fields |-> {}, replacement |-> ""]
    /\ emitted = << >>
    /\ featureLists = [module \in HomepageModules |-> FeatureList(module)]
    /\ exampleCategories = ExampleCategories
    /\ renderTarget = "none"
    /\ markup = << >>
    /\ renders = << >>

SiteSpec == Init /\ [][SiteNext]_vars

BoilerplateSpec == Init /\ [][ProcNext]_vars

\* The same process under the event loop's scheduling: a continuation that
\* is ready runs (the microtask queue is drained after every macrotask), and
\* every call of syntropyLog.shutdown() settles in the end.
BoilerplateFairSpec ==
    /\ Init /\ [][ProcNext]_vars
    /\ WF_vars(ResumeInitialize)
    /\ WF_vars(ResumeMain)
    /\ WF_vars(ResumeShutdown)
    /\ WF_vars(ResumeHandler)
    /\ WF_vars(ResumeTest)
    /\ WF_vars(\E k \in 1..MaxSignals + 1, e \in Errors \cup {NoError} : SettleShutdown(k, e))

NotificationSpec == Init /\ [][NotifNext]_vars

AccessorSpec == Init /\ [][AccessorNext]_vars

LoggingSpec == Init /\ [][LoggingNext]_vars

RenderSpec == Init /\ [][RenderNext]_vars

(***************************************************************************)
(* The claims.                                                             *)
(***************************************************************************)

\* The links the link check has met so far.
MetLinks == {AllLinks(config, examplesPage)[i] : i \in 1..checked}

\* C1: every link target that ExampleCard builds for an entry of
\* ExampleCategories is the route of an existing documentation page: the link
\* check never meets a card link that does not resolve.
C1_ExampleCardLinksResolve ==
    \A link \in MetLinks : link.source = "cards" => Resolves(link)

\* C2: every `to` target of the navbar items and footer links resolves to an
\* existing page of the site: the link check never meets a navbar or footer
\* link that does not resolve.
C2_NavigationLinksResolve ==
    \A link \in MetLinks : link.source \in {"navbar", "footer"} => Resolves(link)

BrokenInternalMet == \E link \in MetLinks : link.kind = "to" /\ ~Resolves(link)

\* C3: a build that met a broken internal link ends failed and is never
\* built; broken links inside Markdown content are warned about and do not
\* fail the build, which completes when they are its only defects.
C3_BrokenLinksFailTheBuild ==
    /\ buildPhase = "built" => ~BrokenInternalMet
    /\ buildPhase = "failed" => BrokenInternalMet
    /\ \A link \in MetLinks : link.kind = "markdown" /\ ~Resolves(link) => link \in warnings
    /\ \A link \in warnings : link.kind = "markdown"

\* C3's case: a build that met a broken internal link and broken Markdown
\* links has ended, failed, having warned about the latter.
C3_Witness ==
    /\ buildPhase = "failed"
    /\ BrokenInternalMet
    /\ \E link \in warnings : link.kind = "markdown"

\* C4: process.exit(0) of a signal handler is never reached while a call of
\* syntropyLog.shutdown() is still pending, whatever signals arrived.
C4_NoExitWhileShutdownPending ==
    exited /\ exitCode = 0 =>
        \A k \in 1..Len(shutdownCalls) : shutdownCalls[k].status # "pending"

Boilerplate == app \in {"main", "test29"}

Logged(entry) == \E i \in 1..Len(console) : console[i] = entry

\* Whether the continuation of whoever awaits the k-th gracefulShutdown() is
\* ready to run or has run.
CallerContinues(k) ==
    \/ \E i \in 1..Len(microtasks) : microtasks[i] = ShutdownCaller(k)
    \/ ShutdownCaller(k).kind = "handler" /\ handlers[ShutdownCaller(k).idx].pc = "exit"
    \/ ShutdownCaller(k).kind = "test" /\ mainPc = "done"
    \/ exited

\* C5: gracefulShutdown() never rejects: when syntropyLog.shutdown() rejects
\* the error is logged and not re-thrown, its promise resolves and its caller
\* continues.
C5_GracefulShutdownNeverRejects ==
    Boilerplate =>
        \A k \in 1..Len(shutdownFns) :
            /\ shutdownFns[k].status # "rejected"
            /\ shutdownFns[k].status = "resolved" =>
                  /\ shutdownCalls[k].status \in {"resolved", "rejected"}
                  /\ CallerContinues(k)
                  /\ shutdownCalls[k].status = "rejected" =>
                        Logged([stream |-> "error", msg |-> "Error during shutdown:",
                                error |-> shutdownCalls[k].error])

\* C5's case: syntropyLog.shutdown() rejected and gracefulShutdown() resolved.
C5_Witness ==
    /\ Boilerplate
    /\ \E k \in 1..Len(shutdownFns) :
          /\ shutdownCalls[k].status = "rejected"
          /\ shutdownFns[k].status = "resolved"

\* C6: initializeSyntropyLog() resolves only after syntropyLog.init() has
\* resolved, and when init rejects it rejects with that same error, which it
\* has logged; the rejection is never swallowed.
C6_InitializeFollowsInit ==
    Boilerplate =>
        /\ initFn.status = "resolved" => initCall.status = "resolved"
        /\ initFn.status = "rejected" =>
              /\ initCall.status = "rejected"
              /\ initFn.error = initCall.error
              /\ Logged([stream |-> "error", msg |-> "SyntropyLog initialization failed:",
                         error |-> initCall.error])
        /\ initCall.status = "rejected" /\ initFn.status # "pending" =>
              initFn.status = "rejected"

\* C6's case: init rejected and initializeSyntropyLog() has settled.
C6_Witness ==
    /\ Boilerplate
    /\ initCall.status = "rejected"
    /\ initFn.status = "rejected"

\* C7: gracefulShutdown() resolves to a defined result equal to
\* { success: true }.
C7_GracefulShutdownResolvesToSuccess ==
    \A k \in 1..Len(shutdownFns) :
        shutdownFns[k].status = "resolved" =>
            shutdownFns[k].value = [kind |-> "object", props |-> {<<"success", "true">>}]

\* C8: initializeSyntropyLog() resolves to a defined value that exposes
\* getLogger.
C8_InitializeResolvesToInstance ==
    initFn.status = "resolved" =>
        /\ initFn.value.kind # "undefined"
        /\ \E prop \in initFn.value.props : prop[1] = "getLogger"

\* The messages and levels each operation is to log.
Expected(op) ==
    IF op = "sendWelcomeNotification"
    THEN [startLevel |-> "info", start |-> "Sending welcome notification",
          doneLevel |-> "info", done |-> "Welcome notification sent"]
    ELSE [startLevel |-> "warn", start |-> "Password reset requested",
          doneLevel |-> "info", done |-> "Password reset email sent"]

IsStartOf(entry, op, uid) ==
    /\ entry.level = Expected(op).startLevel
    /\ entry.message = Expected(op).start
    /\ entry.userId = uid

IsDoneOf(entry, op, uid) ==
    /\ entry.level = Expected(op).doneLevel
    /\ entry.message = Expected(op).done
    /\ entry.userId = uid

StartsUpTo(j, op, uid) == {i \in 1..j : IsStartOf(entries[i], op, uid)}

DonesUpTo(j, op, uid) == {i \in 1..j : IsDoneOf(entries[i], op, uid)}

CallsOf(op, uid, pcs) ==
    {c \in 1..Len(calls) : calls[c].op = op /\ calls[c].user.id = uid /\ calls[c].pc \in pcs}

\* C9: each NotificationService operation appends exactly two entries, its
\* start entry before its completion entry, with the messages and levels of
\* the operation, every entry carrying the user's id.
C9_TwoEntriesPerOperation ==
    /\ Len(entries) = Len(calls) + Cardinality({c \in 1..Len(calls) : calls[c].pc = "done"})
    /\ \A op \in Ops, u \in Users :
          /\ Cardinality(StartsUpTo(Len(entries), op, u.id))
                = Cardinality(CallsOf(op, u.id, {"delay", "done"}))
          /\ Cardinality(DonesUpTo(Len(entries), op, u.id))
                = Cardinality(CallsOf(op, u.id, {"done"}))
          /\ \A j \in 1..Len(entries) :
                Cardinality(StartsUpTo(j, op, u.id)) >= Cardinality(DonesUpTo(j, op, u.id))
    /\ Len(calls) = 1 /\ calls[1].pc = "done" =>
          /\ Len(entries) = 2
          /\ IsStartOf(entries[1], calls[1].op, calls[1].user.id)
          /\ IsDoneOf(entries[2], calls[1].op, calls[1].user.id)

\* C9's case: a test made one call of sendPasswordReset and the call returned.
C9_Witness ==
    /\ testPc = "done"
    /\ Len(calls) = 1
    /\ calls[1].op = "sendPasswordReset"
    /\ Len(entries) = 2

WelcomeAndReset ==
    /\ Len(calls) = 2
    /\ calls[1].op = "sendWelcomeNotification"
    /\ calls[2].op = "sendPasswordReset"

\* C10: after sendWelcomeNotification(u1) and sendPasswordReset(u2), run
\* together with Promise.all, have both completed, the transport holds exactly
\* four entries, among them 'Sending welcome notification' with u1's id and
\* 'Password reset requested' with u2's id.
C10_ConcurrentCallsKeepAllEntries ==
    testPc = "done" /\ WelcomeAndReset =>
        /\ Len(entries) = 4
        /\ \E i \in 1..Len(entries) :
              /\ entries[i].message = "Sending welcome notification"
              /\ entries[i].userId = calls[1].user.id
        /\ \E i \in 1..Len(entries) :
              /\ entries[i].message = "Password reset requested"
              /\ entries[i].userId = calls[2].user.id
        /\ \E i \in 1..Len(entries) : entries[i].message = "Welcome notification sent"
        /\ \E i \in 1..Len(entries) : entries[i].message = "Password reset email sent"

\* C10's case: both calls, for two different users, have completed.
C10_Witness ==
    /\ testPc = "done"
    /\ WelcomeAndReset
    /\ calls[1].user.id = 1
    /\ calls[2].user.id = 2

ContextFieldsOf(e) == DOMAIN e.ctx \cap DOMAIN e.fields

\* The list the matrix held for the entry's level when it was emitted.
ListOf(e) ==
    IF e.level \in DOMAIN e.matrix THEN e.matrix[e.level] ELSE e.matrix["default"]

SecretsOf(e) ==
    {e.ctx[f] : f \in {g \in DOMAIN e.ctx : Includes(masking.fields, g)}}
        \cup {e.meta[f] : f \in {g \in DOMAIN e.meta : Includes(masking.fields, g)}}

C15_SilentObserver ==
    Boilerplate /\ requestCall.status # "rejected" =>
        /\ initFn.status # "rejected"
        /\ \A k \in 1..Len(shutdownFns) : shutdownFns[k].status # "rejected"
        /\ ~(exited /\ exitCode # 0)

\* C16 as stated: once a signal was delivered, the process exits with code 0
\* and with no other code.
C16_ExitCodeZeroAfterSignal ==
    exited /\ Len(handlers) > 0 => exitCode = 0

\* C16, amended: after a signal was delivered the process exits in the end,
\* every call of syntropyLog.shutdown() settling; a signal handler exits it
\* with code 0 whether shutdown() resolved or rejected, and the exit code is
\* other than 0 only when the catch block of main() exited first.
C16_SignalLeadsToExit ==
    /\ [](exited /\ (\E h \in 1..Len(handlers) : handlers[h].pc = "exit") => exitCode = 0)
    /\ [](exited /\ exitCode # 0 => app = "main" /\ mainPc = "failed")
    /\ (Len(handlers) > 0 ~> exited)

\* C16's case: a signal handler exited the process after its
\* syntropyLog.shutdown() rejected.
C16_Witness ==
    /\ exited
    /\ \E h \in 1..Len(handlers) :
          /\ handlers[h].pc = "exit"
          /\ shutdownCalls[handlers[h].fn].status = "rejected"

StartedLog == Log("logger", "Application started successfully", NoError)

\* C17: main() obtains and uses the logger, the HTTP client and the broker
\* only after initializeSyntropyLog() resolved; when initialisation or the
\* request rejects, the process exits with code 1 and main() takes no further
\* step.
C17_MainRunsAfterInitialize ==
    app = "main" =>
        /\ Logged(StartedLog) \/ requestCall.status # "none" => initFn.status = "resolved"
        /\ mainPc = "failed" => exited /\ exitCode = 1
        /\ initFn.status = "rejected" /\ microtasks = << >> =>
              /\ mainPc = "failed"
              /\ requestCall.status = "none"
              /\ ~Logged(StartedLog)
        /\ requestCall.status = "rejected" /\ microtasks = << >> =>
              /\ mainPc = "failed"
              /\ ~Logged(Log("logger", "Health check completed", NoError))

\* C17's case: the request of main() rejected after the resources were
\* obtained, and main() has reached its catch block.
C17_Witness ==
    /\ app = "main"
    /\ Logged(StartedLog)
    /\ requestCall.status = "rejected"
    /\ mainPc = "failed"

\* The children of the HomepageFeatures renders, finished or in progress.
FeatureRenders ==
    {<<renders[r].component, renders[r].children>> :
        r \in {q \in 1..Len(renders) : renders[q].component \in HomepageModules}}
      \cup (IF renderTarget \in HomepageModules THEN {<<renderTarget, markup>>} ELSE {})

\* C18: HomepageFeatures renders one Feature per entry of FeatureList, in
\* array order, each with the title, the Svg and the description of its
\* entry: none is skipped, duplicated or reordered.
C18_OneFeaturePerEntry ==
    /\ \A fr \in FeatureRenders :
          /\ Len(fr[2]) <= Len(FeatureList(fr[1]))
          /\ \A i \in 1..Len(fr[2]) :
                /\ fr[2][i].type = "Feature"
                /\ fr[2][i].key = i - 1
                /\ fr[2][i].heading.text = FeatureList(fr[1])[i].title
                /\ fr[2][i].svg.component = FeatureList(fr[1])[i].Svg
                /\ fr[2][i].paragraph = FeatureList(fr[1])[i].description
    /\ \A r \in 1..Len(renders) :
          renders[r].component \in HomepageModules =>
              Len(renders[r].children) = Len(FeatureList(renders[r].component))

\* C18's case: both HomepageFeatures modules have been rendered.
C18_Witness ==
    /\ \E r \in 1..Len(renders) :
          renders[r].component = "part_001" /\ Len(renders[r].children) = 6
    /\ \E r \in 1..Len(renders) :
          renders[r].component = "HomepageFeatures/index.tsx" /\ Len(renders[r].children) = 3

\* The number of examples over all the categories.
RECURSIVE TotalExamples(_)
TotalExamples(categories) ==
    IF categories = << >> THEN 0
    ELSE Len(Head(categories).examples) + TotalExamples(Tail(categories))

\* The number of cards in the rendered categories.
RECURSIVE TotalCards(_)
TotalCards(children) ==
    IF children = << >> THEN 0
    ELSE Len(Head(children).cards) + TotalCards(Tail(children))

\* C19: the Examples page renders one ExampleCategory per entry of
\* ExampleCategories in array order and, in each, one ExampleCard per example
\* in array order, so that the cards are as many as the examples of all the
\* categories.
C19_OneCardPerExample ==
    \A r \in 1..Len(renders) :
        renders[r].component = "part_000" =>
            LET children == renders[r].children
            IN  /\ Len(children) = Len(ExampleCategories)
                /\ \A i \in 1..Len(children) :
                      /\ children[i].type = "ExampleCategory"
                      /\ children[i].heading.text = ExampleCategories[i].title
                      /\ Len(children[i].cards) = Len(ExampleCategories[i].examples)
                      /\ \A j \in 1..Len(children[i].cards) :
                            /\ children[i].cards[j].type = "ExampleCard"
                            /\ children[i].cards[j].heading =
                                  (ExampleCategories[i].examples[j].number \o " - ")
                                      \o ExampleCategories[i].examples[j].title
                            /\ children[i].cards[j].paragraph =
                                  ExampleCategories[i].examples[j].description
                /\ TotalCards(children) = TotalExamples(ExampleCategories)

\* C19's case: the Examples page has been rendered, with cards.
C19_Witness ==
    \E r \in 1..Len(renders) :
        /\ renders[r].component = "part_000"
        /\ TotalCards(renders[r].children) > Len(ExampleCategories)

RECURSIVE RangesIn(_)
RangesIn(inner) ==
    IF Len(inner) < 5 THEN {}
    ELSE (ParseNumber(SubSeq(inner, 1, 2)) .. ParseNumber(SubSeq(inner, 4, 5)))
            \cup (IF Len(inner) > 7 THEN RangesIn(Drop(inner, 7)) ELSE {})

NamedRange(text) ==
    RangesIn(SubSeq(text, IndexOf(text, "(") + 1, IndexOf(text, ")") - 1))

\* The entries of the categories as <<category, entry>> positions.
EntriesOf(categories) ==
    UNION {{<<i, j>> : j \in 1..Len(categories[i].examples)} : i \in 1..Len(categories)}

\* The Link targets of the cards of rendered categories, in order.
RECURSIVE CardTargets(_)
CardTargets(children) ==
    IF children = << >> THEN << >>
    ELSE [j \in 1..Len(Head(children).cards) |-> Head(children).cards[j].link.to]
            \o CardTargets(Tail(children))

\* The children of the renders of the Examples page of part_000, finished or
\* in progress.
CategoryRenders ==
    {renders[r].children : r \in {q \in 1..Len(renders) : renders[q].component = "part_000"}}
      \cup (IF renderTarget = "part_000" THEN {markup} ELSE {})

\* C21: no example number is repeated within or across the categories of
\* ExampleCategories, the numbers of each category are exactly the range its
\* title names (00-09, 10-13, 20-24), and no two rendered cards link to the
\* same target.
C21_NumbersAreUniqueAndInRange ==
    /\ \A i \in 1..Len(exampleCategories) :
          LET examples == exampleCategories[i].examples
          IN  /\ \A j \in 1..Len(examples) :
                    Len(examples[j].number) = 2 /\ IsDigits(examples[j].number)
              /\ {ParseNumber(examples[j].number) : j \in 1..Len(examples)}
                    = NamedRange(exampleCategories[i].title)
    /\ NamedRange(exampleCategories[1].title) = 0..9
    /\ NamedRange(exampleCategories[2].title) = 10..13
    /\ NamedRange(exampleCategories[3].title) = 20..24
    /\ \A a, b \in EntriesOf(exampleCategories) :
          a # b => exampleCategories[a[1]].examples[a[2]].number
                      # exampleCategories[b[1]].examples[b[2]].number
    /\ \A children \in CategoryRenders :
          LET targets == CardTargets(children)
          IN  \A a, b \in 1..Len(targets) : a # b => targets[a] # targets[b]

\* C21's case: the Examples page was rendered with the cards of all three
\* categories.
C21_Witness ==
    \E r \in 1..Len(renders) :
        /\ renders[r].component = "part_000"
        /\ Len(renders[r].children) = 3
        /\ Len(CardTargets(renders[r].children)) = TotalExamples(ExampleCategories)
        /\ TotalExamples(ExampleCategories) > Len(ExampleCategories)

\* The status a heading gives to the examples below it.
StatusOf(text) ==
    IF Contains(text, "Complete & Tested") THEN "complete"
    ELSE IF Contains(text, "In Development") THEN "development"
    ELSE "none"

\* The number an item or a label starts with.
NumberOf(text) == ParseNumber(SubSeq(text, 1, 2))

\* The items of rendered rows, in order, each with its number and with the
\* status of the h2 heading it stands under.
RECURSIVE ListedUnder(_, _)
ListedUnder(children, status) ==
    IF children = << >> THEN << >>
    ELSE LET row == Head(children)
             under == IF row.tag = "h2" THEN StatusOf(row.text) ELSE status
         IN  [k \in 1..Len(row.items) |->
                 [slug |-> row.items[k], number |-> NumberOf(row.items[k]), status |-> under]]
               \o ListedUnder(Tail(children), under)

Listed(children) == ListedUnder(children, "none")

\* The items of the renders of the Examples page of src/pages/examples.tsx,
\* finished or in progress.
ListedSoFar ==
    {Listed(renders[r].children) :
        r \in {q \in 1..Len(renders) : renders[q].component = "examples.tsx"}}
      \cup (IF renderTarget = "examples.tsx" THEN {Listed(markup)} ELSE {})

\* The numbers docs/examples/index.md states for one status.
StatedNumbers(status) ==
    UNION {NamedRange(CoreFrameworkExamples[i].heading) :
              i \in {h \in 1..Len(CoreFrameworkExamples) :
                        StatusOf(CoreFrameworkExamples[h].heading) = status}}

\* C22: the Examples page (examples.tsx) lists every example number from 00
\* to 27 exactly once, under 'Complete & Tested' exactly when the number is in
\* 00-13 or 20-24 and under 'In Development' exactly when it is in 14-19 or
\* 25-27, and these are the two sets docs/examples/index.md states.
C22_EveryExampleListedOnceUnderItsStatus ==
    /\ \A listed \in ListedSoFar :
          /\ \A k \in 1..Len(listed) :
                /\ listed[k].number \in 0..27
                /\ listed[k].status = "complete"
                      <=> listed[k].number \in (0..13) \cup (20..24)
                /\ listed[k].status = "development"
                      <=> listed[k].number \in (14..19) \cup (25..27)
                /\ listed[k].number \in StatedNumbers(listed[k].status)
          /\ \A k, l \in 1..Len(listed) : k # l => listed[k].number # listed[l].number
    /\ \A r \in 1..Len(renders) :
          renders[r].component = "examples.tsx" =>
              LET listed == Listed(renders[r].children)
              IN  /\ \A n \in 0..27 :
                        Cardinality({k \in 1..Len(listed) : listed[k].number = n}) = 1
                  /\ \A status \in {"complete", "development"} :
                        {listed[k].number :
                            k \in {l \in 1..Len(listed) : listed[l].status = status}}
                          = StatedNumbers(status)
    /\ StatedNumbers("complete") = (0..13) \cup (20..24)
    /\ StatedNumbers("development") = (14..19) \cup (25..27)

\* C22's case: the Examples page of examples.tsx was rendered with all its
\* rows and its 28 items.
C22_Witness ==
    \E r \in 1..Len(renders) :
        /\ renders[r].component = "examples.tsx"
        /\ Len(renders[r].children) = Len(ExamplesPageRows)
        /\ Len(Listed(renders[r].children)) = 28

\* The rows of the tables of docs/examples.md, table after table.
RECURSIVE TableRows(_)
TableRows(tables) ==
    IF tables = << >> THEN << >>
    ELSE Head(tables).rows \o TableRows(Tail(tables))

\* The slug a link of docs/examples.md leads to: the last segment of its path.
LinkedSlug(row) == Drop(row.href, LastSlash(row.href))

\* C23: each example number denotes the same example in every catalogue of
\* the site: the slug the Examples page (examples.tsx) lists for a number is
\* the slug docs/examples.md links for that number (and the title
\* ExampleCategories gives the number names that example).  Stated here for
\* the slugs: no rendered item of examples.tsx carries another slug than the
\* row of docs/examples.md with the same number.
C23_NumberDenotesTheSameExample ==
    \A listed \in ListedSoFar :
        \A k \in 1..Len(listed) :
            \A t \in 1..Len(TableRows(AvailableExamples)) :
                LET row == TableRows(AvailableExamples)[t]
                IN  NumberOf(row.label) = listed[k].number => LinkedSlug(row) = listed[k].slug

\* The links the claim C24 is about: the links of the pages of docs/examples
\* that lead to a page beside them, and the 'Related Examples' links of the
\* testing pages.
LinksBetweenExamples ==
    {link \in MetLinks :
        /\ link.source \in MarkdownPages
        /\ StartsWith(link.href, "./") \/ link.source # "md_index"}

\* The front-matter ids of the pages of docs/examples.
ExampleIds == {DocId(p) : p \in {q \in DocPages : q.dir = "examples"}}

\* C24: every relative link from one documentation page under docs/examples
\* to another resolves to an existing page, its last path segment being the
\* front-matter id of a page of that directory: the link check never meets
\* such a link that does not resolve.
C24_LinksBetweenExamplesResolve ==
    \A link \in LinksBetweenExamples :
        /\ Resolves(link)
        /\ Drop(link.href, LastSlash(link.href)) \in ExampleIds

\* C25: the content tree maps every documentation page to a distinct route:
\* once the generator has mapped the pages, no two of them (by front-matter id
\* or, without one, by file name and directory) have the same route, in
\* particular docs/examples.md and docs/examples/index.md.
C25_RoutesAreDistinct ==
    buildPhase # "idle" =>
        \A p, q \in DocPages : p # q => DocRoute(p) # DocRoute(q)

\* The text a browser shows for an html item: what stands between the opening
\* and the closing tag.
TextOf(html) ==
    LET inside == Drop(html, IndexOf(html, ">"))
    IN  SubSeq(inside, 1, IndexOf(inside, "<") - 1)

\* The version a badge shows: its text without the leading "v".
ShownVersion(html) ==
    IF StartsWith(TextOf(html), "v") THEN Drop(TextOf(html), 1) ELSE TextOf(html)

\* C26: the version the navbar badge shows equals customFields.version in
\* every evaluation of the configuration, whatever the value of
\* LATEST_VERSION.
C26_BadgeShowsCustomFieldsVersion ==
    \A i \in 1..Len(siteConfig.navbarHtml) :
        /\ <<"version", ShownVersion(siteConfig.navbarHtml[i])>> \in siteConfig.customFields
        /\ \A field \in siteConfig.customFields :
              field[1] = "version" => field[2] = ShownVersion(siteConfig.navbarHtml[i])

\* C26's case: docusaurus.config.ts was evaluated with another value of
\* LATEST_VERSION than today's, and the navbar holds the badge.
C26_Witness ==
    /\ buildPhase # "idle"
    /\ config = "ts"
    /\ Len(siteConfig.navbarHtml) = 1
    /\ \E field \in siteConfig.customFields :
          field[1] = "version" /\ field[2] # LATEST_VERSION

====
